---------------------------- MODULE Spec2Model ----------------------------
(***************************************************************************)
(* Name resolution pass of nosh (src/ast_pass/name_resolve.rs).            *)
(*                                                                         *)
(* AstNameResolver::run_pass walks one parsed Module in two phases over a  *)
(* ScopedSymbolStack.  The recursive walk of the source is modelled as a   *)
(* small-step machine: `stack` is the call stack of the walk (the work     *)
(* that remains), one action per match arm / loop iteration of the source. *)
(* The ScopedSymbolStack itself (crate::ast::symbol) is modelled from its  *)
(* documented contract.                                                    *)
(***************************************************************************)
EXTENDS Integers, Sequences, FiniteSets, TLC

(***************************************************************************)
(* Bounds of the explored input space.                                     *)
(***************************************************************************)
MaxNodes == 4   \* items + parameters + body nodes of a module of any shape
MaxStmts == 5   \* statements of the body of a block-structured function
MaxParams == 2  \* parameters of a function of a declaration-only module
MaxArgs == 2    \* arguments of a Call / bindings of a Let of a flat body

Names == {"a", "b"}
NoName == "_"

(***************************************************************************)
(* The AST (crate::ast): every expression node is a record                 *)
(*   [kind, nid, name, kids]                                               *)
(* Block: kids = the sub-expressions; Decl: name = vd.bound, kids =        *)
(* <<vd.value>>; Let: kids = bound \o <<let_body>>; Var: name = td;         *)
(* Call: kids = <<callee>> \o args; Binary: <<lhs, rhs>>;                   *)
(* If: <<cond, if_body, else_body>>; While: <<cond, while_body>>; Lit.      *)
(***************************************************************************)
Node(k, n, ks) == [kind |-> k, nid |-> 0, name |-> n, kids |-> ks]

Lit == Node("Lit", NoName, <<>>)
Var(n) == Node("Var", n, <<>>)
Decl(n, v) == Node("Decl", n, <<v>>)
Block(subs) == Node("Block", NoName, subs)
Let(bound, body) == Node("Let", NoName, Append(bound, body))
Call(callee, args) == Node("Call", NoName, <<callee>> \o args)
Binary(l, r) == Node("Binary", NoName, <<l, r>>)
If(c, t, e) == Node("If", NoName, <<c, t, e>>)
While(c, b) == Node("While", NoName, <<c, b>>)
NoBody == Node("None", NoName, <<>>)

Func(n, args, body) ==
    [kind |-> "Func", nid |-> 0, name |-> n, args |-> args, body |-> body]
Extern(n) ==
    [kind |-> "Extern", nid |-> 0, name |-> n, args |-> <<>>, body |-> NoBody]
Arg(n) == [nid |-> 0, name |-> n]

RECURSIVE Size(_)
RECURSIVE SizeAll(_)
Size(e) == 1 + SizeAll(e.kids)
SizeAll(es) == IF es = <<>> THEN 0 ELSE Size(Head(es)) + SizeAll(Tail(es))

(***************************************************************************)
(* Node identities: the parser tags every node with a unique nid.  Items,  *)
(* parameters and expression nodes are numbered in source (pre-)order.     *)
(***************************************************************************)
RECURSIVE Number(_, _)
RECURSIVE NumberAll(_, _)
Number(e, start) ==
    [e EXCEPT !.nid = start, !.kids = NumberAll(e.kids, start + 1)]
NumberAll(es, start) ==
    IF es = <<>> THEN <<>>
    ELSE <<Number(Head(es), start)>> \o NumberAll(Tail(es), start + Size(Head(es)))

ItemSize(it) ==
    1 + Len(it.args) + (IF it.kind = "Func" THEN Size(it.body) ELSE 0)

NumberItem(it, start) ==
    [it EXCEPT !.nid = start,
               !.args = [i \in 1..Len(it.args) |->
                            [it.args[i] EXCEPT !.nid = start + i]],
               !.body = IF it.kind = "Func"
                        THEN Number(it.body, start + Len(it.args) + 1)
                        ELSE it.body]

RECURSIVE NumberItems(_, _)
NumberItems(its, start) ==
    IF its = <<>> THEN <<>>
    ELSE <<NumberItem(Head(its), start)>>
           \o NumberItems(Tail(its), start + ItemSize(Head(its)))

Module(its) == [body |-> NumberItems(its, 1)]

(***************************************************************************)
(* Input space, part 1: every expression of exactly n nodes.  The sets are *)
(* built by size: t[i] is the set of the expressions of i nodes.           *)
(***************************************************************************)
\* the sequences of k elements of the sets of t with n nodes in total
RECURSIVE SeqsOfSize(_, _, _)
SeqsOfSize(t, n, k) ==
    IF k = 0 THEN (IF n = 0 THEN {<<>>} ELSE {})
    ELSE UNION {LET rest == SeqsOfSize(t, n - i, k - 1)
                IN  {<<e>> \o s : e \in t[i], s \in rest}
                  : i \in {j \in 1..n : j <= Len(t)}}

\* the sequences of lo..hi elements of the sets of t with n nodes in total
SeqsOfSizes(t, n, lo, hi) == UNION {SeqsOfSize(t, n, k) : k \in lo..hi}

ExprsOver(t, n) ==
    (IF n = 1 THEN {Lit} \cup {Var(x) : x \in Names} ELSE {})
    \cup {Block(s) : s \in SeqsOfSizes(t, n - 1, 0, n - 1)}
    \cup (IF n > 1 THEN {Decl(x, v) : x \in Names, v \in t[n - 1]} ELSE {})
    \cup {Node("Let", NoName, s) : s \in SeqsOfSizes(t, n - 1, 1, n - 1)}
    \cup {Node("Call", NoName, s) : s \in SeqsOfSizes(t, n - 1, 1, n - 1)}
    \cup {Node("Binary", NoName, s) : s \in SeqsOfSize(t, n - 1, 2)}
    \cup {Node("If", NoName, s) : s \in SeqsOfSize(t, n - 1, 3)}
    \cup {Node("While", NoName, s) : s \in SeqsOfSize(t, n - 1, 2)}

RECURSIVE ExprTable(_)
ExprTable(n) ==
    IF n = 0 THEN <<>>
    ELSE LET t == ExprTable(n - 1) IN Append(t, ExprsOver(t, n))

(***************************************************************************)
(* Input space, part 1 (continued): every module of at most MaxNodes       *)
(* nodes, an item, a parameter and an expression node counting one each.   *)
(***************************************************************************)
RECURSIVE ArgsOfLen(_)
ArgsOfLen(k) ==
    IF k = 0 THEN {<<>>}
    ELSE {<<Arg(x)>> \o s : x \in Names, s \in ArgsOfLen(k - 1)}

\* the items of n nodes, et[i] being the expressions of i nodes
ItemsOfSize(et, n) ==
    UNION ({IF n = 1 THEN {Extern(x) : x \in Names} ELSE {}}
           \cup {{Func(x, as, b) : x \in Names, as \in ArgsOfLen(p),
                                   b \in et[n - 1 - p]}
                   : p \in 0..(n - 2)})

RECURSIVE ItemTable(_, _)
ItemTable(et, n) ==
    IF n = 0 THEN <<>>
    ELSE Append(ItemTable(et, n - 1), ItemsOfSize(et, n))

\* t[i + 1] is the set of the item lists of i nodes, it[i] the items of i nodes
RECURSIVE ItemSeqTable(_, _)
ItemSeqTable(it, n) ==
    IF n = 0 THEN <<{<<>>}>>
    ELSE LET t == ItemSeqTable(it, n - 1)
         IN  Append(t, UNION {{<<i1>> \o s : i1 \in it[i], s \in t[n - i + 1]}
                                : i \in 1..n})

SmallModules(max) ==
    LET st == ItemSeqTable(ItemTable(ExprTable(max - 1), max), max)
    IN  UNION {st[n + 1] : n \in 1..max}

(***************************************************************************)
(* Input space, part 2: one function a() whose body is block-structured:   *)
(* a statement is `n = <literal>`, a reference to n, or a Block of         *)
(* statements; at most MaxStmts statements.                                *)
(***************************************************************************)
StmtsOver(t, n) ==
    (IF n = 1 THEN {Decl(x, Lit) : x \in Names} \cup {Var(x) : x \in Names}
     ELSE {})
    \cup {Block(s) : s \in SeqsOfSizes(t, n - 1, 0, n - 1)}

RECURSIVE StmtTable(_)
StmtTable(n) ==
    IF n = 0 THEN <<>>
    ELSE LET t == StmtTable(n - 1) IN Append(t, StmtsOver(t, n))

BlockModules(max) ==
    LET t == StmtTable(max)
    IN  {<<Func("a", <<>>, b)>> : b \in UNION {t[n] : n \in 1..max}}

(***************************************************************************)
(* Input space, part 3: two items that only declare: externs and           *)
(* functions of at most MaxParams parameters with a literal body.          *)
(***************************************************************************)
DeclItems(max) ==
    {Extern(x) : x \in Names}
    \cup UNION {{Func(x, as, Lit) : x \in Names, as \in ArgsOfLen(p)}
                  : p \in 0..max}

DeclModules(max) == {<<i1, i2>> : i1 \in DeclItems(max), i2 \in DeclItems(max)}

(***************************************************************************)
(* Input space, part 4: one function a() whose body is one If, While,      *)
(* Binary, Call or Let over simple operands: a literal, a reference,       *)
(* `n = <literal>` or `n = <reference to another name>`.                   *)
(***************************************************************************)
Operands ==
    {Lit} \cup {Var(x) : x \in Names}
    \cup {Decl(x, Lit) : x \in Names}
    \cup UNION {{Decl(x, Var(y)) : y \in Names \ {x}} : x \in Names}

RECURSIVE OperandSeqs(_)
OperandSeqs(k) ==
    IF k = 0 THEN {<<>>}
    ELSE {<<e>> \o s : e \in Operands, s \in OperandSeqs(k - 1)}

FlatBodies(max) ==
    {Node("If", NoName, s) : s \in OperandSeqs(3)}
    \cup {Node("While", NoName, s) : s \in OperandSeqs(2)}
    \cup {Node("Binary", NoName, s) : s \in OperandSeqs(2)}
    \cup UNION {{Node("Call", NoName, s) : s \in OperandSeqs(k + 1)} : k \in 0..max}
    \cup UNION {{Node("Let", NoName, s) : s \in OperandSeqs(k + 1)} : k \in 0..max}

FlatModules(max) == {<<Func("a", <<>>, b)>> : b \in FlatBodies(max)}

(***************************************************************************)
(* Input space, part 5: one function a() whose body is the Block           *)
(* { <construct>; <reference> }, the construct being an If, While,         *)
(* Binary, Call or Let whose parts are literals and `n = <literal>`.       *)
(***************************************************************************)
RECURSIVE SeqsOf(_, _)
SeqsOf(S, k) ==
    IF k = 0 THEN {<<>>}
    ELSE {<<e>> \o s : e \in S, s \in SeqsOf(S, k - 1)}

ThenConstructs(max) ==
    LET D == {Lit} \cup {Decl(x, Lit) : x \in Names} IN
    {Node("If", NoName, s) : s \in SeqsOf(D, 3)}
    \cup {Node("While", NoName, s) : s \in SeqsOf(D, 2)}
    \cup {Node("Binary", NoName, s) : s \in SeqsOf(D, 2)}
    \cup UNION {{Node("Call", NoName, s) : s \in SeqsOf(D, k)} : k \in 1..max}
    \cup UNION {{Node("Let", NoName, s) : s \in SeqsOf(D, k)} : k \in 1..max}

ThenModules(max) ==
    {<<Func("a", <<>>, Block(<<c, Var(x)>>))>> :
        c \in ThenConstructs(max), x \in Names}

(***************************************************************************)
(* Input space, part 6: two functions, each with a simple operand as its   *)
(* body; the first is named a and has fewer than MaxParams parameters,     *)
(* the second has at most one.                                             *)
(***************************************************************************)
PairModules(max) ==
    LET first == UNION {{Func("a", as, b) : as \in ArgsOfLen(p), b \in Operands}
                          : p \in 0..(max - 1)}
        second == UNION {{Func(x, as, b) : x \in Names, as \in ArgsOfLen(p),
                                           b \in Operands}
                           : p \in 0..1}
    IN  {<<f, g>> : f \in first, g \in second}

(***************************************************************************)
(* Input space, part 7: one function a(p) of one parameter whose body is   *)
(* a Block of fewer than MaxStmts statements, a statement being            *)
(* `p = <literal>`, a reference to p, or a Block of statements.            *)
(***************************************************************************)
ParamStmtsOver(x, t, n) ==
    (IF n = 1 THEN {Decl(x, Lit), Var(x)} ELSE {})
    \cup {Block(s) : s \in SeqsOfSizes(t, n - 1, 0, n - 1)}

RECURSIVE ParamStmtTable(_, _)
ParamStmtTable(x, n) ==
    IF n = 0 THEN <<>>
    ELSE LET t == ParamStmtTable(x, n - 1) IN Append(t, ParamStmtsOver(x, t, n))

ParamBlockModules(max) ==
    UNION {LET t == ParamStmtTable(x, max - 1)
           IN  {<<Func("a", <<Arg(x)>>, b)>> :
                   b \in {c \in UNION {t[n] : n \in 1..(max - 1)} : c.kind = "Block"}}
             : x \in Names}

Modules(nodes, stmts, params, args) ==
    {Module(its) : its \in SmallModules(nodes) \cup BlockModules(stmts)
                             \cup DeclModules(params) \cup FlatModules(args)
                             \cup ThenModules(args) \cup PairModules(params)
                             \cup ParamBlockModules(stmts)}

(***************************************************************************)
(* ScopedSymbolStack (crate::ast::symbol).  A value is a record            *)
(*   frames : the scopes, innermost last, each a function name -> sid      *)
(*   table  : the table under construction, nid -> sid                     *)
(*   syms   : per-symbol metadata, sid -> [kind, nid]                      *)
(*   next   : the next symbol id to allocate                               *)
(***************************************************************************)
EmptyMap == [x \in {} |-> 0]

ScopedSymbolStack_default ==
    [frames |-> <<>>, table |-> EmptyMap, syms |-> EmptyMap, next |-> 1]

push_scope(s) == [s EXCEPT !.frames = Append(@, EmptyMap)]

\* only called on a non-empty stack; the empty case is fatal (see PopScope)
pop_scope(s) == [s EXCEPT !.frames = SubSeq(@, 1, Len(@) - 1)]

Redefinition(nid, name) == [kind |-> "Redefinition", nid |-> nid, name |-> name]

\* declare `name` at node `nid` in the top scope; [ok, st, err]
insert_sym(s, kind, nid, name) ==
    LET top == s.frames[Len(s.frames)] IN
    IF name \in DOMAIN top
    THEN [ok |-> FALSE, st |-> s, err |-> Redefinition(nid, name)]
    ELSE [ok |-> TRUE,
          st |-> [frames |-> [s.frames EXCEPT ![Len(s.frames)] =
                                  [x \in DOMAIN top \cup {name} |->
                                      IF x = name THEN s.next ELSE top[x]]],
                  table |-> [n \in DOMAIN s.table \cup {nid} |->
                                IF n = nid THEN s.next ELSE s.table[n]],
                  syms |-> [i \in DOMAIN s.syms \cup {s.next} |->
                               IF i = s.next THEN [kind |-> kind, nid |-> nid]
                               ELSE s.syms[i]],
                  next |-> s.next + 1],
          err |-> Redefinition(nid, name)]

insert_func(s, nid, name) == insert_sym(s, "Func", nid, name)

insert_local(s, nid, name) == insert_sym(s, "Local", nid, name)

insert_local_reuse(s, nid, sid) ==
    [s EXCEPT !.table = [n \in DOMAIN s.table \cup {nid} |->
                            IF n = nid THEN sid ELSE s.table[n]]]

\* innermost scope first; [found, sid]
lookup(s, name) ==
    LET hits == {i \in 1..Len(s.frames) : name \in DOMAIN s.frames[i]} IN
    IF hits = {} THEN [found |-> FALSE, sid |-> 0]
    ELSE LET i == CHOOSE j \in hits : \A k \in hits : k <= j
         IN  [found |-> TRUE, sid |-> s.frames[i][name]]

finish_resolve(s) == [table |-> s.table, syms |-> s.syms]

(***************************************************************************)
(* AstNameResolver.                                                        *)
(***************************************************************************)
VARIABLES
    m,            \* the Module given to run_pass
    pc,           \* position in run_pass
    idx,          \* index of the current top-level item in the current phase
    stack,        \* call stack of the walk: the work that remains, next first
    scopes,       \* self.scopes
    errs,         \* self.errs
    result,       \* the value run_pass returned
    fault,        \* why the process aborted, if it did
    finishCalls   \* number of calls of finish_resolve

vars == <<m, pc, idx, stack, scopes, errs, result, fault, finishCalls>>

NoResult == [tag |-> "None", table |-> EmptyMap, syms |-> EmptyMap, errs |-> <<>>]

Frame(op, e, nid, name) == [op |-> op, e |-> e, nid |-> nid, name |-> name]
ExprFrame(e) == Frame("expr", e, e.nid, e.name)
ExprFrames(es) == [i \in 1..Len(es) |-> ExprFrame(es[i])]
ArgFrames(as) == [i \in 1..Len(as) |-> Frame("arg", NoBody, as[i].nid, as[i].name)]

Init ==
    /\ m \in Modules(MaxNodes, MaxStmts, MaxParams, MaxArgs)
    /\ pc = "start"
    /\ idx = 1
    /\ stack = <<>>
    /\ scopes = ScopedSymbolStack_default
    /\ errs = <<>>
    /\ result = NoResult
    /\ fault = "none"
    /\ finishCalls = 0

Walking == pc = "phase2" /\ stack # <<>>
AtExpr(k) == Walking /\ Head(stack).op = "expr" /\ Head(stack).e.kind = k
AtOp(o) == Walking /\ Head(stack).op = o

\* run_pass, line 20: the root scope
PushRootScope ==
    /\ pc = "start"
    /\ scopes' = push_scope(scopes)
    /\ pc' = "phase1"
    /\ UNCHANGED <<m, idx, stack, errs, result, fault, finishCalls>>

\* insert_func of one top-level item and the error it may yield
RegisterTopLevel(item) ==
    LET r == insert_func(scopes, item.nid, item.name) IN
    /\ scopes' = r.st
    /\ errs' = IF r.ok THEN errs ELSE Append(errs, r.err)
    /\ idx' = idx + 1
    /\ UNCHANGED <<m, pc, stack, result, fault, finishCalls>>

\* resolve_top_level_names, one iteration, ItemKind::Func
TopLevelNameFunc ==
    /\ pc = "phase1" /\ idx <= Len(m.body)
    /\ m.body[idx].kind = "Func"
    /\ RegisterTopLevel(m.body[idx])

\* TopLevelNameExtern with the extern left unregistered
TopLevelNameExternSkipped ==
    /\ pc = "phase1" /\ idx <= Len(m.body)
    /\ m.body[idx].kind = "Extern"
    /\ idx' = idx + 1
    /\ UNCHANGED <<m, pc, stack, scopes, errs, result, fault, finishCalls>>

\* resolve_top_level_names, one iteration, ItemKind::Extern
TopLevelNameExtern ==
    /\ pc = "phase1" /\ idx <= Len(m.body)
    /\ m.body[idx].kind = "Extern"
    /\ RegisterTopLevel(m.body[idx])

\* run_pass, lines 23-26: phase 1 returns, phase 2 starts
StartPhase2 ==
    /\ pc = "phase1" /\ idx > Len(m.body)
    /\ pc' = "phase2"
    /\ idx' = 1
    /\ UNCHANGED <<m, stack, scopes, errs, result, fault, finishCalls>>

\* TopLevelContentsFunc resolving the body before declaring the parameters
TopLevelContentsFuncBodyFirst ==
    /\ pc = "phase2" /\ stack = <<>> /\ idx <= Len(m.body)
    /\ m.body[idx].kind = "Func"
    /\ scopes' = push_scope(scopes)
    /\ stack' = <<ExprFrame(m.body[idx].body)>>
                  \o ArgFrames(m.body[idx].args)
                  \o <<Frame("pop_func", NoBody, m.body[idx].nid, NoName)>>
    /\ UNCHANGED <<m, pc, idx, errs, result, fault, finishCalls>>

\* resolve_top_level_contents, ItemKind::Func: resolve_func_contents is
\* entered, pushes the scope of the arguments and queues its steps
TopLevelContentsFunc ==
    /\ pc = "phase2" /\ stack = <<>> /\ idx <= Len(m.body)
    /\ m.body[idx].kind = "Func"
    /\ scopes' = push_scope(scopes)
    /\ stack' = ArgFrames(m.body[idx].args)
                  \o <<ExprFrame(m.body[idx].body),
                       Frame("pop_func", NoBody, m.body[idx].nid, NoName)>>
    /\ UNCHANGED <<m, pc, idx, errs, result, fault, finishCalls>>

\* resolve_top_level_contents, ItemKind::Extern
TopLevelContentsExtern ==
    /\ pc = "phase2" /\ stack = <<>> /\ idx <= Len(m.body)
    /\ m.body[idx].kind = "Extern"
    /\ idx' = idx + 1
    /\ UNCHANGED <<m, pc, stack, scopes, errs, result, fault, finishCalls>>

\* Declare with the error of a rejected declaration dropped
DeclareDropsError ==
    LET r == insert_local(scopes, Head(stack).nid, Head(stack).name) IN
    /\ scopes' = r.st
    /\ stack' = Tail(stack)
    /\ UNCHANGED <<m, pc, idx, errs, result, fault, finishCalls>>

\* Declare where a rejected declaration still takes over the name: the
\* error is recorded, and a new symbol is allocated, entered and bound
DeclareRebinds ==
    LET r == insert_local(scopes, Head(stack).nid, Head(stack).name)
        top == scopes.frames[Len(scopes.frames)]
        cleared == [scopes EXCEPT !.frames[Len(scopes.frames)] =
                       [x \in DOMAIN top \ {Head(stack).name} |-> top[x]]]
    IN  /\ scopes' = insert_local(cleared, Head(stack).nid, Head(stack).name).st
        /\ errs' = IF r.ok THEN errs ELSE Append(errs, r.err)
        /\ stack' = Tail(stack)
        /\ UNCHANGED <<m, pc, idx, result, fault, finishCalls>>

\* insert_local of one declaration and the error it may yield
Declare ==
    LET r == insert_local(scopes, Head(stack).nid, Head(stack).name) IN
    /\ scopes' = r.st
    /\ errs' = IF r.ok THEN errs ELSE Append(errs, r.err)
    /\ stack' = Tail(stack)
    /\ UNCHANGED <<m, pc, idx, result, fault, finishCalls>>

\* resolve_func_contents, one iteration of the loop over the arguments
DeclareArg == AtOp("arg") /\ Declare

\* pop_scope; fatal on an empty stack
PopScope ==
    IF scopes.frames = <<>>
    THEN /\ pc' = "panicked"
         /\ fault' = "pop_empty"
         /\ UNCHANGED <<scopes, stack>>
    ELSE /\ scopes' = pop_scope(scopes)
         /\ stack' = Tail(stack)
         /\ UNCHANGED <<pc, fault>>

\* PopFuncScope leaving the scope of the parameters on the stack
PopFuncScopeKeeps ==
    /\ AtOp("pop_func")
    /\ stack' = Tail(stack)
    /\ idx' = idx + 1
    /\ UNCHANGED <<m, pc, scopes, fault, errs, result, finishCalls>>

\* PopFuncScope handing the symbol ids of the scope it pops back to the
\* allocator
PopFuncScopeRecycles ==
    /\ AtOp("pop_func")
    /\ scopes' = [pop_scope(scopes) EXCEPT
                    !.next = @ - Cardinality(DOMAIN scopes.frames[Len(scopes.frames)])]
    /\ stack' = Tail(stack)
    /\ idx' = idx + 1
    /\ UNCHANGED <<m, pc, fault, errs, result, finishCalls>>

\* resolve_func_contents, line 92, and the return to the loop over the items
PopFuncScope ==
    /\ AtOp("pop_func")
    /\ PopScope
    /\ idx' = IF scopes.frames = <<>> THEN idx ELSE idx + 1
    /\ UNCHANGED <<m, errs, result, finishCalls>>

\* the steps resolve_expr queues for the sub-expressions es, in this order
Descend(es) ==
    /\ stack' = ExprFrames(es) \o Tail(stack)
    /\ UNCHANGED <<m, pc, idx, scopes, errs, result, fault, finishCalls>>

\* DescendScoped with the push_scope forgotten
DescendScopedNoPush(es, pop) ==
    /\ stack' = ExprFrames(es)
                  \o <<Frame(pop, NoBody, Head(stack).nid, NoName)>>
                  \o Tail(stack)
    /\ UNCHANGED <<m, pc, idx, scopes, errs, result, fault, finishCalls>>

\* a construct that opens a scope around the sub-expressions es
DescendScoped(es, pop) ==
    /\ scopes' = push_scope(scopes)
    /\ stack' = ExprFrames(es)
                  \o <<Frame(pop, NoBody, Head(stack).nid, NoName)>>
                  \o Tail(stack)
    /\ UNCHANGED <<m, pc, idx, errs, result, fault, finishCalls>>

\* ExprBlock resolving the sub-expressions in the enclosing scope
ExprBlockNoScope ==
    /\ AtExpr("Block")
    /\ Descend(Head(stack).e.kids)

\* resolve_expr, ExprKind::Block, lines 97-100
ExprBlock ==
    /\ AtExpr("Block")
    /\ DescendScoped(Head(stack).e.kids, "pop_block")

\* PopBlockScope with the pop_scope forgotten
PopBlockScopeKeeps ==
    /\ AtOp("pop_block")
    /\ stack' = Tail(stack)
    /\ UNCHANGED <<m, pc, idx, scopes, errs, result, fault, finishCalls>>

\* resolve_expr, ExprKind::Block, line 101
PopBlockScope ==
    /\ AtOp("pop_block")
    /\ PopScope
    /\ UNCHANGED <<m, idx, errs, result, finishCalls>>

\* ExprDecl declaring the bound name before resolving the value
ExprDeclNameFirst ==
    /\ AtExpr("Decl")
    /\ stack' = <<Frame("decl", NoBody, Head(stack).nid, Head(stack).name),
                  ExprFrame(Head(stack).e.kids[1])>>
                  \o Tail(stack)
    /\ UNCHANGED <<m, pc, idx, scopes, errs, result, fault, finishCalls>>

\* resolve_expr, ExprKind::Decl, line 104: the value first
ExprDecl ==
    /\ AtExpr("Decl")
    /\ stack' = <<ExprFrame(Head(stack).e.kids[1]),
                  Frame("decl", NoBody, Head(stack).nid, Head(stack).name)>>
                  \o Tail(stack)
    /\ UNCHANGED <<m, pc, idx, scopes, errs, result, fault, finishCalls>>

\* resolve_expr, ExprKind::Decl, lines 105-107: then the bound name
DeclareLocal == AtOp("decl") /\ Declare

\* ExprLet resolving let_body before the bindings
ExprLetBodyFirst ==
    /\ AtExpr("Let")
    /\ DescendScoped(<<Head(stack).e.kids[Len(Head(stack).e.kids)]>>
                       \o SubSeq(Head(stack).e.kids, 1, Len(Head(stack).e.kids) - 1),
                     "pop_let")

\* resolve_expr, ExprKind::Let, lines 112-116: bound in order, then let_body
ExprLet ==
    /\ AtExpr("Let")
    /\ DescendScoped(Head(stack).e.kids, "pop_let")

\* resolve_expr, ExprKind::Let, line 117
PopLetScope ==
    /\ AtOp("pop_let")
    /\ PopScope
    /\ UNCHANGED <<m, idx, errs, result, finishCalls>>

\* the outermost binding of name instead of the innermost; [found, sid]
lookup_outermost(s, name) ==
    LET hits == {i \in 1..Len(s.frames) : name \in DOMAIN s.frames[i]} IN
    IF hits = {} THEN [found |-> FALSE, sid |-> 0]
    ELSE LET i == CHOOSE j \in hits : \A k \in hits : k >= j
         IN  [found |-> TRUE, sid |-> s.frames[i][name]]

\* ExprVarFound taking the binding of the outermost scope
ExprVarFoundOutermost ==
    /\ AtExpr("Var")
    /\ lookup(scopes, Head(stack).name).found
    /\ scopes' = insert_local_reuse(scopes, Head(stack).nid,
                                    lookup_outermost(scopes, Head(stack).name).sid)
    /\ stack' = Tail(stack)
    /\ UNCHANGED <<m, pc, idx, errs, result, fault, finishCalls>>

\* ExprVarFound giving the reference a symbol id of its own
ExprVarFoundFresh ==
    /\ AtExpr("Var")
    /\ lookup(scopes, Head(stack).name).found
    /\ scopes' = [insert_local_reuse(scopes, Head(stack).nid, scopes.next)
                    EXCEPT !.next = @ + 1]
    /\ stack' = Tail(stack)
    /\ UNCHANGED <<m, pc, idx, errs, result, fault, finishCalls>>

\* resolve_expr, ExprKind::Var, Some(sid_ref)
ExprVarFound ==
    /\ AtExpr("Var")
    /\ lookup(scopes, Head(stack).name).found
    /\ scopes' = insert_local_reuse(scopes, Head(stack).nid,
                                    lookup(scopes, Head(stack).name).sid)
    /\ stack' = Tail(stack)
    /\ UNCHANGED <<m, pc, idx, errs, result, fault, finishCalls>>

\* resolve_expr, ExprKind::Var, None: unimplemented!() panics
ExprVarNone ==
    /\ AtExpr("Var")
    /\ ~lookup(scopes, Head(stack).name).found
    /\ pc' = "panicked"
    /\ fault' = "unimplemented"
    /\ UNCHANGED <<m, idx, stack, scopes, errs, result, finishCalls>>

\* CallOrder with the callee resolved first, as it is written
CallOrderCalleeFirst(e) == e.kids

\* the order in which a Call resolves its parts: the args, then the callee
CallOrder(e) == SubSeq(e.kids, 2, Len(e.kids)) \o <<e.kids[1]>>

\* resolve_expr, ExprKind::Call
ExprCall == AtExpr("Call") /\ Descend(CallOrder(Head(stack).e))

\* resolve_expr, ExprKind::Binary
ExprBinary == AtExpr("Binary") /\ Descend(Head(stack).e.kids)

\* ExprIf leaving the else branch unresolved
ExprIfSkipsElse ==
    /\ AtExpr("If")
    /\ Descend(SubSeq(Head(stack).e.kids, 1, 2))

\* resolve_expr, ExprKind::If
ExprIf == AtExpr("If") /\ Descend(Head(stack).e.kids)

\* ExprWhile with a scope of its own around the condition and the body
ExprWhileScoped ==
    /\ AtExpr("While")
    /\ DescendScoped(Head(stack).e.kids, "pop_block")

\* resolve_expr, ExprKind::While
ExprWhile == AtExpr("While") /\ Descend(Head(stack).e.kids)

\* resolve_expr, ExprKind::Lit
ExprLit == AtExpr("Lit") /\ Descend(<<>>)

\* run_pass, lines 26-29: phase 2 returns, the root scope is popped
PopRootScope ==
    /\ pc = "phase2" /\ stack = <<>> /\ idx > Len(m.body)
    /\ IF scopes.frames = <<>>
       THEN pc' = "panicked" /\ fault' = "pop_empty" /\ UNCHANGED scopes
       ELSE pc' = "decide" /\ scopes' = pop_scope(scopes) /\ UNCHANGED fault
    /\ UNCHANGED <<m, idx, stack, errs, result, finishCalls>>

\* HasErrors that overlooks a single error
HasErrorsOffByOne(es) == Len(es) > 1

\* run_pass, line 31
HasErrors(es) == es # <<>>

\* run_pass, lines 31-32
ReturnErr ==
    /\ pc = "decide"
    /\ HasErrors(errs)
    /\ result' = [NoResult EXCEPT !.tag = "Err", !.errs = errs]
    /\ pc' = "done"
    /\ UNCHANGED <<m, idx, stack, scopes, errs, fault, finishCalls>>

\* run_pass, lines 33-34
ReturnOk ==
    /\ pc = "decide"
    /\ ~HasErrors(errs)
    /\ result' = [NoResult EXCEPT !.tag = "Ok",
                                  !.table = finish_resolve(scopes).table,
                                  !.syms = finish_resolve(scopes).syms]
    /\ finishCalls' = finishCalls + 1
    /\ pc' = "done"
    /\ UNCHANGED <<m, idx, stack, scopes, errs, fault>>

Next ==
    \/ PushRootScope
    \/ TopLevelNameFunc
    \/ TopLevelNameExtern
    \/ StartPhase2
    \/ TopLevelContentsFunc
    \/ TopLevelContentsExtern
    \/ DeclareArg
    \/ PopFuncScope
    \/ ExprBlock
    \/ PopBlockScope
    \/ ExprDecl
    \/ DeclareLocal
    \/ ExprLet
    \/ PopLetScope
    \/ ExprVarFound
    \/ ExprVarNone
    \/ ExprCall
    \/ ExprBinary
    \/ ExprIf
    \/ ExprWhile
    \/ ExprLit
    \/ PopRootScope
    \/ ReturnErr
    \/ ReturnOk

Spec == Init /\ [][Next]_vars

\* run_pass is one sequential computation: it keeps taking steps while it can
FairSpec == Spec /\ WF_vars(Next)

(***************************************************************************)
(* Static views of the module m, used to state the properties.             *)
(***************************************************************************)
RECURSIVE Nodes(_)
\* the expression nodes of the tree e
Nodes(e) == {e} \cup UNION {Nodes(e.kids[i]) : i \in 1..Len(e.kids)}

Items == {m.body[i] : i \in 1..Len(m.body)}
Funcs == {it \in Items : it.kind = "Func"}
Params(f) == {f.args[i] : i \in 1..Len(f.args)}
BodyNodes == UNION {Nodes(f.body) : f \in Funcs}
Table == scopes.table
Resolved(nid) == nid \in DOMAIN Table
ErrNids == [i \in 1..Len(errs) |-> errs[i].nid]
Rejected(nid) == \E i \in 1..Len(errs) : errs[i].nid = nid
\* the nids of the subtree of e, which are numbered in pre-order
Span(e) == e.nid..(e.nid + Size(e) - 1)
OpensScope(e) == e.kind \in {"Block", "Let"}

RECURSIVE ScopesAround(_, _)
\* the number of Block and Let nodes of the tree e that properly enclose
\* the node nid
ScopesAround(e, nid) ==
    IF e.nid = nid THEN 0
    ELSE LET k == CHOOSE i \in 1..Len(e.kids) : nid \in Span(e.kids[i])
         IN  (IF OpensScope(e) THEN 1 ELSE 0) + ScopesAround(e.kids[k], nid)

(***************************************************************************)
(* C1: when the walk reaches a variable reference whose name no scope on   *)
(* the stack binds, the pass does not abort: it appends an error record    *)
(* for that reference to errs and the walk goes on to the next step.       *)
(* The code panics there (unimplemented!()), so TLC refutes this.          *)
(***************************************************************************)
C1_UnresolvedIsRecorded ==
    [][(AtExpr("Var") /\ ~lookup(scopes, Head(stack).name).found)
         => /\ pc' = "phase2"
            /\ fault' = "none"
            /\ Len(errs') = Len(errs) + 1
            /\ errs'[Len(errs')].nid = Head(stack).nid
            /\ stack' = Tail(stack)]_vars

(***************************************************************************)
(* C2: scope pushes and pops balance, also for modules with errors:        *)
(* pop_scope never meets an empty stack; at every step of the walk the     *)
(* stack holds the root scope, the scope of the parameters of the current  *)
(* function and one scope per Block or Let enclosing the current node,     *)
(* nothing else; and it holds no scope when run_pass decides what to       *)
(* return.                                                                 *)
(***************************************************************************)
C2_ScopesBalanced ==
    LET depth == Len(scopes.frames)
        body == m.body[idx].body
        top == Head(stack)
    IN  /\ fault # "pop_empty"
        /\ pc = "start" => depth = 0
        /\ pc = "phase1" => depth = 1
        /\ (pc = "phase2" /\ stack = <<>>) => depth = 1
        /\ pc \in {"decide", "done"} => depth = 0
        /\ Walking =>
             /\ top.op \in {"expr", "decl"}
                  => depth = 2 + ScopesAround(body, top.nid)
             /\ top.op \in {"pop_block", "pop_let"}
                  => depth = 3 + ScopesAround(body, top.nid)
             /\ top.op \in {"arg", "pop_func"} => depth = 2

\* a module with a Block and a Let has recorded errors and reached the
\* decision of run_pass with an empty scope stack
C2_Witness ==
    /\ pc = "decide"
    /\ errs # <<>>
    /\ scopes.frames = <<>>
    /\ \E b \in BodyNodes : b.kind = "Block"
    /\ \E b \in BodyNodes : b.kind = "Let"

(***************************************************************************)
(* C3: run_pass returns the error list exactly when an error was recorded  *)
(* and the finalized table otherwise; finish_resolve is called at most     *)
(* once, only after the root scope was popped and only with no error       *)
(* recorded, so no table is returned together with a recorded error.       *)
(***************************************************************************)
C3_TwoOutcomes ==
    /\ finishCalls \in {0, 1}
    /\ (pc = "done") <=> (result.tag \in {"Ok", "Err"})
    /\ result.tag = "Err"
         => /\ errs # <<>>
            /\ result.errs = errs
            /\ result.table = EmptyMap
            /\ finishCalls = 0
    /\ result.tag = "Ok"
         => /\ errs = <<>>
            /\ result.table = scopes.table
            /\ result.syms = scopes.syms
            /\ finishCalls = 1
    /\ finishCalls = 1
         => /\ pc = "done" /\ result.tag = "Ok"
            /\ scopes.frames = <<>>
            /\ errs = <<>>

\* run_pass has returned the error list of a module whose walk recorded
\* an error after symbols were entered in the table
C3_Witness ==
    /\ pc = "done"
    /\ result.tag = "Err"
    /\ result.errs # <<>>
    /\ DOMAIN scopes.table # {}

(***************************************************************************)
(* The declarations a module makes twice in one scope, read off the tree   *)
(* without scopes or symbols: `seen` is the set of the names declared so   *)
(* far in the construct that holds the current node.  A Block and a Let    *)
(* start an empty set of their own; every other kind passes the set on.    *)
(* A result is [errs, seen]: the nids of the repeated declarations in      *)
(* source order of resolution, and the names seen afterwards.              *)
(***************************************************************************)
RECURSIVE Repeats(_, _)
RECURSIVE RepeatsAll(_, _)
Repeats(e, seen) ==
    CASE OpensScope(e) ->
           [errs |-> RepeatsAll(e.kids, {}).errs, seen |-> seen]
      [] e.kind = "Decl" ->
           LET r == Repeats(e.kids[1], seen)
           IN  IF e.name \in r.seen
               THEN [errs |-> Append(r.errs, e.nid), seen |-> r.seen]
               ELSE [errs |-> r.errs, seen |-> r.seen \cup {e.name}]
      [] e.kind = "Call" ->
           RepeatsAll(SubSeq(e.kids, 2, Len(e.kids)) \o <<e.kids[1]>>, seen)
      [] OTHER -> RepeatsAll(e.kids, seen)

RepeatsAll(es, seen) ==
    IF es = <<>> THEN [errs |-> <<>>, seen |-> seen]
    ELSE LET r == Repeats(Head(es), seen)
             rest == RepeatsAll(Tail(es), r.seen)
         IN  [errs |-> r.errs \o rest.errs, seen |-> rest.seen]

\* the parameters of f named like an earlier parameter of f
RepeatedParams(f) ==
    LET dup == {i \in 1..Len(f.args) :
                   \E j \in 1..(i - 1) : f.args[j].name = f.args[i].name}
    IN  [i \in 1..Len(f.args) |->
            IF i \in dup THEN <<f.args[i].nid>> ELSE <<>>]

RECURSIVE Flatten(_)
Flatten(ss) == IF ss = <<>> THEN <<>> ELSE Head(ss) \o Flatten(Tail(ss))

\* the top-level items named like an earlier item, in item order
RepeatedItems ==
    Flatten([i \in 1..Len(m.body) |->
                IF \E j \in 1..(i - 1) : m.body[j].name = m.body[i].name
                THEN <<m.body[i].nid>> ELSE <<>>])

\* the repeated parameters and locals of the functions, in item order
RepeatedInBodies ==
    Flatten([i \in 1..Len(m.body) |->
                IF m.body[i].kind = "Func"
                THEN Flatten(RepeatedParams(m.body[i]))
                       \o Repeats(m.body[i].body,
                                  {a.name : a \in Params(m.body[i])}).errs
                ELSE <<>>])

IsPrefix(s, t) == Len(s) <= Len(t) /\ s = SubSeq(t, 1, Len(s))

(***************************************************************************)
(* C4: a Redefinition does not stop the walk.  The error list holds        *)
(* Redefinition records only, one for each declaration (item, parameter,   *)
(* local) that repeats a name of its scope, in walk order, the top-level   *)
(* ones first; at every moment it is a prefix of that list and when        *)
(* run_pass decides it is the whole list, which is what Err returns.  The  *)
(* body of a function whose own name was rejected has been resolved then.  *)
(***************************************************************************)
C4_ExactlyTheRedefinitions ==
    LET expected == RepeatedItems \o RepeatedInBodies IN
    /\ \A i \in 1..Len(errs) : errs[i].kind = "Redefinition"
    /\ IsPrefix(ErrNids, expected)
    /\ pc = "phase2" => IsPrefix(RepeatedItems, ErrNids)
    /\ pc \in {"decide", "done"}
         => /\ ErrNids = expected
            /\ \A f \in Funcs : \A a \in Params(f) :
                  Resolved(a.nid) \/ Rejected(a.nid)
            /\ \A e \in BodyNodes :
                  /\ e.kind = "Var" => Resolved(e.nid)
                  /\ e.kind = "Decl" => Resolved(e.nid) \/ Rejected(e.nid)
    /\ result.tag = "Err" => result.errs = errs /\ result.table = EmptyMap

\* run_pass returned two errors and no table: a top-level item repeating a
\* name, then a parameter of that same rejected function repeating a name
C4_Witness ==
    /\ pc = "done"
    /\ result.tag = "Err"
    /\ Len(result.errs) = 2
    /\ \E f \in Funcs :
          /\ result.errs[1].nid = f.nid
          /\ \E a \in Params(f) : result.errs[2].nid = a.nid
          /\ \E a \in Params(f) : Resolved(a.nid)
          /\ ~Resolved(f.nid)

(***************************************************************************)
(* C5: a declaration conflicts exactly when the top scope already binds    *)
(* its name.  Step by step: an error is recorded by a declaration step     *)
(* whose name the top scope binds, and by no other step.  On the tree: a   *)
(* Decl that is the first of its name in a Block nested in a Block that    *)
(* declared the name before is never rejected (shadowing); the second of   *)
(* two Decls of one name directly in one Block, or directly in one Let     *)
(* group, and the second of two parameters of one name, is never entered   *)
(* in the table and is rejected once the walk is over.                     *)
(***************************************************************************)
DeclKids(p) == {i \in 1..Len(p.kids) : p.kids[i].kind = "Decl"}

\* d is the first declaration of its name that the tree c makes
FirstOfNameIn(d, c) ==
    \A e \in Nodes(c) :
       (e.kind = "Decl" /\ e.name = d.name /\ e.nid # d.nid)
         => e.nid >= d.nid + Size(d)

C5_Shadowing ==
    \A p \in BodyNodes : p.kind = "Block" =>
      \A i \in DeclKids(p) : \A j \in (i + 1)..Len(p.kids) :
        p.kids[j].kind = "Block" =>
          \A k \in DeclKids(p.kids[j]) :
             LET d == p.kids[j].kids[k] IN
             (d.name = p.kids[i].name /\ FirstOfNameIn(d, p.kids[j]))
               => ~Rejected(d.nid)

C5_SameScope ==
    /\ \A p \in BodyNodes : OpensScope(p) =>
         \A i \in DeclKids(p) : \A j \in DeclKids(p) :
            (i < j /\ p.kids[i].name = p.kids[j].name)
              => /\ ~Resolved(p.kids[j].nid)
                 /\ pc \in {"decide", "done"} => Rejected(p.kids[j].nid)
    /\ \A f \in Funcs : \A i \in 1..Len(f.args) : \A j \in 1..Len(f.args) :
            (i < j /\ f.args[i].name = f.args[j].name)
              => /\ ~Resolved(f.args[j].nid)
                 /\ pc \in {"decide", "done"} => Rejected(f.args[j].nid)

\* the name the next step declares, if the next step is a declaration
Declaring ==
    IF pc = "phase1" /\ idx <= Len(m.body) THEN {m.body[idx].name}
    ELSE IF AtOp("arg") \/ AtOp("decl") THEN {Head(stack).name}
    ELSE {}

C5_ConflictIffTopScope ==
    /\ [](C5_Shadowing /\ C5_SameScope)
    /\ [][(errs' # errs) <=>
            \E n \in Declaring :
               n \in DOMAIN scopes.frames[Len(scopes.frames)]]_vars

\* the walk of Block[n = .., Block[n = ..], n = ..] is over: the child's
\* declaration was accepted, the parent's second one is the only error
C5_Witness ==
    /\ pc = "done"
    /\ Len(errs) = 1
    /\ \E p \in BodyNodes :
          /\ p.kind = "Block" /\ Len(p.kids) = 3
          /\ p.kids[1].kind = "Decl" /\ p.kids[3].kind = "Decl"
          /\ p.kids[1].name = p.kids[3].name
          /\ p.kids[2].kind = "Block" /\ Len(p.kids[2].kids) = 1
          /\ p.kids[2].kids[1].kind = "Decl"
          /\ p.kids[2].kids[1].name = p.kids[1].name
          /\ Resolved(p.kids[2].kids[1].nid)
          /\ Rejected(p.kids[3].nid)

(***************************************************************************)
(* C6: every top-level name is in the root scope before any body is        *)
(* resolved.  A reference in a function to the name of a top-level item,   *)
(* where the function declares no parameter and no local of that name, is  *)
(* never unresolved and is bound to the symbol of the first item of that   *)
(* name, whose declaring node is that item: this does not depend on the    *)
(* places of the two items in the item list.                               *)
(***************************************************************************)
ItemIndex(n) ==
    CHOOSE i \in 1..Len(m.body) :
       /\ m.body[i].name = n
       /\ \A j \in 1..(i - 1) : m.body[j].name # n

ItemNames == {it.name : it \in Items}

DeclaresName(f, n) ==
    \/ \E a \in Params(f) : a.name = n
    \/ \E e \in Nodes(f.body) : e.kind = "Decl" /\ e.name = n

\* the references of f to top-level names that f does not shadow
TopLevelRefs(f) ==
    {v \in Nodes(f.body) :
        v.kind = "Var" /\ v.name \in ItemNames /\ ~DeclaresName(f, v.name)}

C6_TopLevelVisibleEverywhere ==
    /\ pc \in {"phase2", "panicked"} =>
         \A n \in ItemNames :
            /\ Resolved(m.body[ItemIndex(n)].nid)
            /\ n \in DOMAIN scopes.frames[1]
            /\ scopes.frames[1][n] = Table[m.body[ItemIndex(n)].nid]
    /\ \A f \in Funcs : \A v \in TopLevelRefs(f) :
         LET decl == m.body[ItemIndex(v.name)].nid IN
         /\ ~(pc = "panicked" /\ Head(stack).nid = v.nid)
         /\ pc \in {"decide", "done"} => Resolved(v.nid)
         /\ Resolved(v.nid) =>
              /\ Table[v.nid] = Table[decl]
              /\ scopes.syms[Table[v.nid]].nid = decl

\* an error-free module is resolved in which a function refers to an item
\* placed after it and another function refers to an item placed before it
C6_Witness ==
    /\ pc = "done"
    /\ result.tag = "Ok"
    /\ \E i \in 1..Len(m.body) :
          /\ m.body[i].kind = "Func"
          /\ \E v \in TopLevelRefs(m.body[i]) :
                /\ ItemIndex(v.name) > i
                /\ result.table[v.nid] = result.table[m.body[ItemIndex(v.name)].nid]
    /\ \E i \in 1..Len(m.body) :
          /\ m.body[i].kind = "Func"
          /\ \E v \in TopLevelRefs(m.body[i]) : ItemIndex(v.name) < i

(***************************************************************************)
(* C7: a reference resolves to the binding of its name in the innermost    *)
(* scope that binds it.  Step by step: the symbol a Var step records is    *)
(* the one of the topmost scope binding the name.  On the tree: with       *)
(* Block[.. x = .. Block[.. x = .. x ..] ..], the reference placed in the  *)
(* inner block after the inner declaration is never unresolved, never      *)
(* carries the symbol of the outer declaration and carries the symbol of   *)
(* the inner one when that was accepted; a reference to a name that is     *)
(* both a parameter of its function and a top-level item, or that a Decl   *)
(* placed before it in its Block declares, resolves to a local symbol.     *)
(***************************************************************************)
VarKids(p, n) ==
    {i \in 1..Len(p.kids) : p.kids[i].kind = "Var" /\ p.kids[i].name = n}

C7_NestedBlocks ==
    \A p \in BodyNodes : p.kind = "Block" =>
      \A i \in DeclKids(p) : \A j \in (i + 1)..Len(p.kids) :
        LET c == p.kids[j] IN
        c.kind = "Block" =>
          \A k \in DeclKids(c) : c.kids[k].name = p.kids[i].name =>
            \A l \in VarKids(c, c.kids[k].name) : l > k =>
               LET v == c.kids[l].nid
                   inner == c.kids[k].nid
                   outer == p.kids[i].nid
               IN  /\ ~(pc = "panicked" /\ Head(stack).nid = v)
                   /\ (Resolved(v) /\ Resolved(outer)) => Table[v] # Table[outer]
                   /\ (Resolved(v) /\ Resolved(inner)) => Table[v] = Table[inner]

C7_LocalsHideItems ==
    /\ \A f \in Funcs : \A a \in Params(f) : \A v \in Nodes(f.body) :
          (v.kind = "Var" /\ v.name = a.name /\ Resolved(v.nid))
            => /\ scopes.syms[Table[v.nid]].kind = "Local"
               /\ \A it \in Items : Resolved(it.nid) => Table[v.nid] # Table[it.nid]
    /\ \A p \in BodyNodes : p.kind = "Block" =>
          \A i \in DeclKids(p) : \A l \in VarKids(p, p.kids[i].name) :
             (l > i /\ Resolved(p.kids[l].nid))
               => scopes.syms[Table[p.kids[l].nid]].kind = "Local"

C7_InnermostWins ==
    /\ [](C7_NestedBlocks /\ C7_LocalsHideItems)
    /\ [][(AtExpr("Var") /\ pc' = "phase2") =>
            \E i \in 1..Len(scopes.frames) :
               /\ Head(stack).name \in DOMAIN scopes.frames[i]
               /\ \A j \in (i + 1)..Len(scopes.frames) :
                     Head(stack).name \notin DOMAIN scopes.frames[j]
               /\ Head(stack).nid \in DOMAIN scopes'.table
               /\ scopes'.table[Head(stack).nid] = scopes.frames[i][Head(stack).name]]_vars

\* Block[x = .., Block[x = .., x]] is resolved without error: the
\* reference carries the inner symbol, which differs from the outer one
C7_Witness ==
    /\ pc = "done"
    /\ result.tag = "Ok"
    /\ \E p \in BodyNodes :
          /\ p.kind = "Block" /\ Len(p.kids) = 2
          /\ p.kids[1].kind = "Decl" /\ p.kids[2].kind = "Block"
          /\ Len(p.kids[2].kids) = 2
          /\ p.kids[2].kids[1].kind = "Decl"
          /\ p.kids[2].kids[1].name = p.kids[1].name
          /\ p.kids[2].kids[2].kind = "Var"
          /\ p.kids[2].kids[2].name = p.kids[1].name
          /\ result.table[p.kids[2].kids[2].nid] = result.table[p.kids[2].kids[1].nid]
          /\ result.table[p.kids[2].kids[2].nid] # result.table[p.kids[1].nid]

(***************************************************************************)
(* C8: in `name = value` the value is resolved before the name is          *)
(* declared.  A reference to `name` inside value is resolved while the     *)
(* declaration has been neither entered nor rejected, and never carries    *)
(* the symbol the declaration creates.  Where the function has no other    *)
(* binding of the name (no item, no parameter, no other Decl), as in       *)
(* `x = x`, the reference is never resolved and the declaration is never   *)
(* entered: the walk takes the not-found arm at the reference.             *)
(***************************************************************************)
SelfRefs(d) ==
    {v \in Nodes(d.kids[1]) : v.kind = "Var" /\ v.name = d.name}

Decls(f) == {d \in Nodes(f.body) : d.kind = "Decl"}

\* d is the only binding of its name that function f can see
OnlyBinding(f, d) ==
    /\ d.name \notin ItemNames
    /\ \A a \in Params(f) : a.name # d.name
    /\ \A e \in Decls(f) : e.name = d.name => e.nid = d.nid

C8_NeverSelf ==
    \A f \in Funcs : \A d \in Decls(f) : \A v \in SelfRefs(d) :
       /\ (Resolved(v.nid) /\ Resolved(d.nid)) => Table[v.nid] # Table[d.nid]
       /\ OnlyBinding(f, d) => (~Resolved(v.nid) /\ ~Resolved(d.nid))

DeclNids ==
    {it.nid : it \in Items}
    \cup UNION {{a.nid : a \in Params(f)} : f \in Funcs}
    \cup {e.nid : e \in {x \in BodyNodes : x.kind = "Decl"}}

RefNodes == {e \in BodyNodes : e.kind = "Var"}

\* the name declared at the declaration node nid
DeclName(nid) ==
    LET named == {it \in Items : it.nid = nid}
                 \cup UNION {{a \in Params(f) : a.nid = nid} : f \in Funcs}
                 \cup {e \in BodyNodes : e.nid = nid}
    IN  (CHOOSE x \in named : TRUE).name

RefsOf(d) == {r \in RefNodes : Resolved(r.nid) /\ Table[r.nid] = Table[d]}

C9_RefsShareDeclSymbol ==
    /\ DOMAIN Table \subseteq DeclNids \cup {r.nid : r \in RefNodes}
    /\ \A r \in RefNodes : Resolved(r.nid) =>
         LET sid == Table[r.nid] IN
         /\ sid \in DOMAIN scopes.syms
         /\ sid < scopes.next
         /\ scopes.syms[sid].nid \in DeclNids
         /\ Resolved(scopes.syms[sid].nid)
         /\ Table[scopes.syms[sid].nid] = sid
         /\ DeclName(scopes.syms[sid].nid) = r.name
    /\ \A d1 \in DeclNids : \A d2 \in DeclNids :
         (Resolved(d1) /\ Resolved(d2) /\ d1 # d2) => Table[d1] # Table[d2]
    /\ result.tag = "Ok" => result.table = Table /\ result.syms = scopes.syms

\* the returned table maps three references to the symbol of one declaration
C9_Witness ==
    /\ pc = "done"
    /\ result.tag = "Ok"
    /\ \E d \in DeclNids :
          /\ Resolved(d)
          /\ Cardinality(RefsOf(d)) = 3

(***************************************************************************)
(* C10: what a Block declares is visible to the later sub-expressions of   *)
(* that block and to nothing outside it.  A reference outside a Block      *)
(* never carries the symbol of a Decl inside it; a reference placed        *)
(* directly in a Block after an accepted Decl of its name placed directly  *)
(* in the same Block carries that Decl's symbol; and of two sibling        *)
(* Blocks declaring one name, the second's first declaration of it is      *)
(* never rejected and gets a symbol of its own.                            *)
(***************************************************************************)
C10_NotVisibleOutside ==
    \A b \in BodyNodes : b.kind = "Block" =>
      \A d \in Nodes(b) : (d.kind = "Decl" /\ Resolved(d.nid)) =>
        \A v \in RefNodes :
           (v.nid \notin Span(b) /\ Resolved(v.nid)) => Table[v.nid] # Table[d.nid]

C10_VisibleLater ==
    \A p \in BodyNodes : p.kind = "Block" =>
      \A i \in DeclKids(p) : Resolved(p.kids[i].nid) =>
        \A l \in VarKids(p, p.kids[i].name) :
           (l > i /\ Resolved(p.kids[l].nid))
             => Table[p.kids[l].nid] = Table[p.kids[i].nid]

C10_SiblingBlocks ==
    \A p \in BodyNodes : p.kind = "Block" =>
      \A i \in 1..Len(p.kids) : \A j \in (i + 1)..Len(p.kids) :
        (p.kids[i].kind = "Block" /\ p.kids[j].kind = "Block") =>
          \A k \in DeclKids(p.kids[i]) : \A l \in DeclKids(p.kids[j]) :
             LET d1 == p.kids[i].kids[k]
                 d2 == p.kids[j].kids[l]
             IN  (d1.name = d2.name /\ FirstOfNameIn(d2, p.kids[j]))
                   => /\ ~Rejected(d2.nid)
                      /\ (Resolved(d1.nid) /\ Resolved(d2.nid))
                           => Table[d1.nid] # Table[d2.nid]

C10_BlockScopeEnds ==
    C10_NotVisibleOutside /\ C10_VisibleLater /\ C10_SiblingBlocks

\* Block[Block[x = ..], Block[x = ..]] is resolved without error, the two
\* declarations holding different symbols
C10_Witness ==
    /\ pc = "done"
    /\ result.tag = "Ok"
    /\ \E p \in BodyNodes :
          /\ p.kind = "Block" /\ Len(p.kids) = 2
          /\ p.kids[1].kind = "Block" /\ p.kids[2].kind = "Block"
          /\ Len(p.kids[1].kids) = 1 /\ Len(p.kids[2].kids) = 1
          /\ p.kids[1].kids[1].kind = "Decl" /\ p.kids[2].kids[1].kind = "Decl"
          /\ p.kids[1].kids[1].name = p.kids[2].kids[1].name
          /\ result.table[p.kids[1].kids[1].nid] # result.table[p.kids[2].kids[1].nid]

(***************************************************************************)
(* C11: the table run_pass returns is complete.  Its keys are exactly the  *)
(* node ids of the items, the parameters, the Decls and the Vars of the    *)
(* module, wherever they stand (both branches of an If, the body of a      *)
(* While, a Block or Let left long before); a declaration's entry is a     *)
(* symbol of its kind whose declaring node it is, a reference's entry is   *)
(* an allocated symbol.  No step ever removes or changes an entry of the   *)
(* table under construction, and a step that pops a scope leaves the       *)
(* table and the symbols as they are.                                      *)
(***************************************************************************)
RefNids == {r.nid : r \in RefNodes}

ItemNids == {it.nid : it \in Items}

PopsScope ==
    \/ AtOp("pop_func") \/ AtOp("pop_block") \/ AtOp("pop_let")
    \/ (pc = "phase2" /\ stack = <<>> /\ idx > Len(m.body))

C11_CompleteOnOk ==
    result.tag = "Ok" =>
      /\ DOMAIN result.table = DeclNids \cup RefNids
      /\ \A d \in DeclNids :
            /\ result.table[d] \in DOMAIN result.syms
            /\ result.syms[result.table[d]].nid = d
            /\ result.syms[result.table[d]].kind =
                 (IF d \in ItemNids THEN "Func" ELSE "Local")
      /\ \A r \in RefNids : result.table[r] \in DOMAIN result.syms

C11_TableComplete ==
    /\ []C11_CompleteOnOk
    /\ [][/\ \A n \in DOMAIN scopes.table :
               n \in DOMAIN scopes'.table /\ scopes'.table[n] = scopes.table[n]
          /\ PopsScope => (scopes'.table = scopes.table
                             /\ scopes'.syms = scopes.syms)]_vars

\* the table of `if <cond> x = .. else y = ..` was returned: it holds both
\* branches' declarations, under different symbols
C11_Witness ==
    /\ pc = "done"
    /\ result.tag = "Ok"
    /\ \E e \in BodyNodes :
          /\ e.kind = "If"
          /\ e.kids[2].kind = "Decl" /\ e.kids[3].kind = "Decl"
          /\ e.kids[2].nid \in DOMAIN result.table
          /\ e.kids[3].nid \in DOMAIN result.table
          /\ result.table[e.kids[2].nid] # result.table[e.kids[3].nid]

(***************************************************************************)
(* C12: a declaration rejected as a Redefinition changes the error list    *)
(* and nothing else.  The step that records the error leaves the scopes,   *)
(* the table, the symbols and the next symbol id as they were.  A          *)
(* rejected node is never a key of the table nor the declaring node of a   *)
(* symbol, and the symbols allocated are as many as the declarations       *)
(* entered.  A reference placed after `x = .. x = ..` in one Block or Let  *)
(* group, or in a function whose parameters repeat the name, carries the   *)
(* symbol of the first declaration.                                        *)
(***************************************************************************)
C12_NoTrace ==
    /\ \A i \in 1..Len(errs) :
          /\ ~Resolved(errs[i].nid)
          /\ \A s \in DOMAIN scopes.syms : scopes.syms[s].nid # errs[i].nid
    /\ DOMAIN scopes.syms = 1..(scopes.next - 1)
    /\ scopes.next = 1 + Cardinality({d \in DeclNids : Resolved(d)})

C12_LaterRefsSeeFirst ==
    /\ \A p \in BodyNodes : OpensScope(p) =>
         \A i \in DeclKids(p) : \A j \in DeclKids(p) :
           (i < j /\ p.kids[i].name = p.kids[j].name) =>
             \A l \in VarKids(p, p.kids[i].name) :
                (l > j /\ Resolved(p.kids[l].nid) /\ Resolved(p.kids[i].nid))
                  => Table[p.kids[l].nid] = Table[p.kids[i].nid]
    /\ \A f \in Funcs : \A i \in 1..Len(f.args) : \A j \in 1..Len(f.args) :
           (i < j /\ f.args[i].name = f.args[j].name
              /\ \A k \in 1..(i - 1) : f.args[k].name # f.args[i].name) =>
             \A v \in Nodes(f.body) :
                (v.kind = "Var" /\ v.name = f.args[i].name /\ Resolved(v.nid)
                   /\ \A d \in Decls(f) : d.name # v.name)
                  => Table[v.nid] = Table[f.args[i].nid]

C12_RejectedChangesOnlyErrs ==
    /\ [](C12_NoTrace /\ C12_LaterRefsSeeFirst)
    /\ [][(errs' # errs) =>
            /\ scopes' = scopes
            /\ \E n \in Declaring :
                  /\ n \in DOMAIN scopes'.frames[Len(scopes'.frames)]
                  /\ Len(errs') = Len(errs) + 1
                  /\ SubSeq(errs', 1, Len(errs)) = errs
                  /\ errs'[Len(errs')].kind = "Redefinition"
                  /\ errs'[Len(errs')].name = n]_vars

\* Block[x = .., x = .., x] was walked: the second declaration is the one
\* error, it is not in the table, and the reference carries the first's
\* symbol, the only symbol allocated besides the function's
C12_Witness ==
    /\ pc = "done"
    /\ result.tag = "Err"
    /\ Len(errs) = 1
    /\ scopes.next = 3
    /\ \E p \in BodyNodes :
          /\ p.kind = "Block" /\ Len(p.kids) = 3
          /\ p.kids[1].kind = "Decl" /\ p.kids[2].kind = "Decl"
          /\ p.kids[3].kind = "Var"
          /\ p.kids[1].name = p.kids[2].name /\ p.kids[3].name = p.kids[1].name
          /\ errs[1].nid = p.kids[2].nid
          /\ ~Resolved(p.kids[2].nid)
          /\ Table[p.kids[3].nid] = Table[p.kids[1].nid]

(***************************************************************************)
(* C13: symbol ids are unique per declaration over the whole pass.  Two    *)
(* different declaration nodes in the table never hold the same symbol     *)
(* id, whatever their names, scopes or functions, and the symbol of a      *)
(* declaration records that node as its declaring node.  Step by step: a   *)
(* declaration entered in the table receives an id no symbol had before,   *)
(* the id a declaration holds never changes, no symbol is changed or       *)
(* removed, and the next id never decreases.                               *)
(***************************************************************************)
C13_Injective ==
    /\ \A d1 \in DeclNids : \A d2 \in DeclNids :
         (Resolved(d1) /\ Resolved(d2) /\ Table[d1] = Table[d2]) => d1 = d2
    /\ \A d \in DeclNids : Resolved(d) =>
         /\ Table[d] \in DOMAIN scopes.syms
         /\ scopes.syms[Table[d]].nid = d
         /\ Table[d] < scopes.next

C13_SymbolIdsUnique ==
    /\ []C13_Injective
    /\ [][/\ scopes'.next >= scopes.next
          /\ \A s \in DOMAIN scopes.syms :
                s \in DOMAIN scopes'.syms /\ scopes'.syms[s] = scopes.syms[s]
          /\ \A d \in DeclNids :
                /\ Resolved(d) =>
                     (d \in DOMAIN scopes'.table /\ scopes'.table[d] = Table[d])
                /\ (~Resolved(d) /\ d \in DOMAIN scopes'.table) =>
                     /\ scopes'.table[d] \notin DOMAIN scopes.syms
                     /\ \A n \in DOMAIN Table : Table[n] # scopes'.table[d]]_vars

\* two functions with the same two parameter names were resolved without
\* error: the six declarations hold six different symbols
C13_Witness ==
    /\ pc = "done"
    /\ result.tag = "Ok"
    /\ \E f \in Funcs : \E g \in Funcs :
          /\ f.nid # g.nid
          /\ Len(f.args) = 2 /\ Len(g.args) = 2
          /\ f.args[1].name = g.args[1].name
          /\ f.args[2].name = g.args[2].name
          /\ Cardinality({result.table[d] : d \in DeclNids}) = 6

(***************************************************************************)
(* C14: the bindings of a Let group are resolved in order, in the one      *)
(* scope pushed for the group, and the body after them in that scope.      *)
(* With kids = bound ++ <<let_body>>:                                      *)
(*  - a reference to the name of an accepted binding j, standing in a      *)
(*    later binding or in the body and in no nested scope, carries the     *)
(*    symbol of binding j;                                                 *)
(*  - a reference standing in binding i never carries the symbol of        *)
(*    binding i or of a later binding, and is never resolved when that     *)
(*    binding is the only declaration of the name the function can see;    *)
(*  - when the group's scope is about to be popped it still binds every    *)
(*    accepted binding of the group;                                       *)
(*  - a reference outside the group never carries the symbol of a          *)
(*    declaration inside it;                                               *)
(*  - step by step, no node of a later part of the group is entered or     *)
(*    rejected while a node of an earlier part is not.                     *)
(***************************************************************************)
Lets(f) == {p \in Nodes(f.body) : p.kind = "Let"}

\* the bindings of the Let p that are declarations
BoundDecls(p) == {j \in DeclKids(p) : j < Len(p.kids)}

\* the nodes of e the walk enters in the table or rejects
NamedNids(e) == {x.nid : x \in {y \in Nodes(e) : y.kind \in {"Decl", "Var"}}}

Settled(nid) == Resolved(nid) \/ Rejected(nid)

C14_Backward ==
    \A f \in Funcs : \A p \in Lets(f) : \A j \in BoundDecls(p) :
      \A i \in (j + 1)..Len(p.kids) : \A v \in Nodes(p.kids[i]) :
         (/\ v.kind = "Var" /\ v.name = p.kids[j].name
          /\ ScopesAround(p, v.nid) = 1
          /\ Resolved(v.nid) /\ Resolved(p.kids[j].nid))
           => Table[v.nid] = Table[p.kids[j].nid]

C14_NoForward ==
    \A f \in Funcs : \A p \in Lets(f) : \A j \in BoundDecls(p) :
      \A i \in 1..j : \A v \in Nodes(p.kids[i]) :
         v.kind = "Var" =>
           /\ (Resolved(v.nid) /\ Resolved(p.kids[j].nid))
                => Table[v.nid] # Table[p.kids[j].nid]
           /\ (v.name = p.kids[j].name /\ OnlyBinding(f, p.kids[j]))
                => ~Resolved(v.nid)

C14_OneScope ==
    \A f \in Funcs : \A p \in Lets(f) :
       (AtOp("pop_let") /\ Head(stack).nid = p.nid) =>
          \A j \in BoundDecls(p) : Resolved(p.kids[j].nid) =>
             LET top == scopes.frames[Len(scopes.frames)] IN
             /\ p.kids[j].name \in DOMAIN top
             /\ top[p.kids[j].name] = Table[p.kids[j].nid]

C14_NotVisibleAfter ==
    \A f \in Funcs : \A p \in Lets(f) : \A d \in Nodes(p) :
       (d.kind = "Decl" /\ Resolved(d.nid)) =>
          \A v \in RefNodes :
             (v.nid \notin Span(p) /\ Resolved(v.nid))
               => Table[v.nid] # Table[d.nid]

C14_LetSequential ==
    /\ [](C14_Backward /\ C14_NoForward /\ C14_OneScope /\ C14_NotVisibleAfter)
    /\ [][\A f \in Funcs : \A p \in Lets(f) :
            \A j \in 2..Len(p.kids) : \A x \in NamedNids(p.kids[j]) :
               (/\ ~Settled(x)
                /\ \/ x \in DOMAIN scopes'.table
                   \/ \E k \in 1..Len(errs') : errs'[k].nid = x)
                 => \A i \in 1..(j - 1) : \A y \in NamedNids(p.kids[i]) :
                       Settled(y)]_vars

\* `let a = .., b = a in b` was resolved without error: the reference in
\* the second binding carries the first binding's symbol, the body's
\* reference the second's
C14_Witness ==
    /\ pc = "done"
    /\ result.tag = "Ok"
    /\ \E p \in BodyNodes :
          /\ p.kind = "Let" /\ Len(p.kids) = 3
          /\ p.kids[1].kind = "Decl" /\ p.kids[2].kind = "Decl"
          /\ p.kids[2].kids[1].kind = "Var"
          /\ p.kids[2].kids[1].name = p.kids[1].name
          /\ p.kids[3].kind = "Var" /\ p.kids[3].name = p.kids[2].name
          /\ result.table[p.kids[2].kids[1].nid] = result.table[p.kids[1].nid]
          /\ result.table[p.kids[3].nid] = result.table[p.kids[2].nid]
          /\ result.table[p.kids[1].nid] # result.table[p.kids[2].nid]

(***************************************************************************)
(* C15: a Call resolves its arguments left to right and then its callee.   *)
(* With kids = <<callee>> ++ args:                                         *)
(*  - a reference to the name an accepted argument `n = ..` declares,      *)
(*    standing in the callee or in a later argument and in no nested       *)
(*    scope, carries that declaration's symbol;                            *)
(*  - a reference standing in an argument never carries the symbol of a    *)
(*    declaration made inside the callee, and is never resolved when that  *)
(*    declaration is the only one of the name the function can see;        *)
(*  - step by step, no node of the callee is entered or rejected while a   *)
(*    node of an argument is not, and no node of an argument while a node  *)
(*    of an earlier argument is not.                                       *)
(***************************************************************************)
Calls(f) == {p \in Nodes(f.body) : p.kind = "Call"}

\* the arguments of the Call p that are declarations
ArgDecls(p) == {j \in DeclKids(p) : j > 1}

\* the places of kids of the Call p resolved after the argument kids[j]
AfterArg(p, j) == {1} \cup (j + 1)..Len(p.kids)

C15_ArgsVisible ==
    \A f \in Funcs : \A p \in Calls(f) : \A j \in ArgDecls(p) :
      \A i \in AfterArg(p, j) : \A v \in Nodes(p.kids[i]) :
         (/\ v.kind = "Var" /\ v.name = p.kids[j].name
          /\ ScopesAround(p, v.nid) = 0
          /\ Resolved(v.nid) /\ Resolved(p.kids[j].nid))
           => Table[v.nid] = Table[p.kids[j].nid]

C15_CalleeNotVisible ==
    \A f \in Funcs : \A p \in Calls(f) : \A d \in Nodes(p.kids[1]) :
      d.kind = "Decl" =>
        \A i \in 2..Len(p.kids) : \A v \in Nodes(p.kids[i]) :
           v.kind = "Var" =>
             /\ (Resolved(v.nid) /\ Resolved(d.nid))
                  => Table[v.nid] # Table[d.nid]
             /\ (v.name = d.name /\ OnlyBinding(f, d)) => ~Resolved(v.nid)

C15_ArgsBeforeCallee ==
    /\ [](C15_ArgsVisible /\ C15_CalleeNotVisible)
    /\ [][\A f \in Funcs : \A p \in Calls(f) :
            \A j \in 1..Len(p.kids) : \A x \in NamedNids(p.kids[j]) :
               (/\ ~Settled(x)
                /\ \/ x \in DOMAIN scopes'.table
                   \/ \E k \in 1..Len(errs') : errs'[k].nid = x)
                 => \A i \in 2..Len(p.kids) :
                       (j = 1 \/ i < j) =>
                          \A y \in NamedNids(p.kids[i]) : Settled(y)]_vars

\* the call `b(b = ..)` was resolved without error: the callee carries
\* the symbol its argument declared
C15_Witness ==
    /\ pc = "done"
    /\ result.tag = "Ok"
    /\ \E p \in BodyNodes :
          /\ p.kind = "Call" /\ Len(p.kids) = 2
          /\ p.kids[1].kind = "Var" /\ p.kids[2].kind = "Decl"
          /\ p.kids[1].name = p.kids[2].name
          /\ p.kids[1].name \notin ItemNames
          /\ result.table[p.kids[1].nid] = result.table[p.kids[2].nid]

(***************************************************************************)
(* C16: for every module the pass terminates with a result.  Phase 1       *)
(* handles the items one by one, each once; in phase 2 no parameter and    *)
(* no expression node is ever pending twice, and a pending one has not     *)
(* been entered or rejected before; and every run reaches the return of    *)
(* run_pass, with the error list or with the table.  Stated under          *)
(* FairSpec: the pass is one sequential computation, so a step that is     *)
(* possible is eventually taken.                                           *)
(* The code aborts at a reference no scope binds (see C1) and never        *)
(* returns then, so TLC refutes the last part.                             *)
(***************************************************************************)
C16_AtMostOnce ==
    Walking =>
      /\ \A i \in 1..Len(stack) : \A j \in (i + 1)..Len(stack) :
            ~(stack[i].op = stack[j].op /\ stack[i].nid = stack[j].nid)
      /\ \A i \in 1..Len(stack) :
            \/ stack[i].op \in {"pop_func", "pop_block", "pop_let"}
            \/ (stack[i].op = "expr" /\ stack[i].e.kind \notin {"Decl", "Var"})
            \/ ~Settled(stack[i].nid)

C16_Terminates ==
    /\ []C16_AtMostOnce
    /\ [][(pc = "phase1" /\ pc' = "phase1") => idx' = idx + 1]_vars
    /\ <>(pc = "done" /\ result.tag \in {"Ok", "Err"})

(***************************************************************************)
(* C17: only the parameter list of a function, a Block and a Let open a    *)
(* scope (and run_pass the root scope).  Step by step: the scope stack     *)
(* grows only on entering run_pass, a function, a Block or a Let, and a    *)
(* step that enters an If, While, Binary, Call, Decl, Var or Lit leaves    *)
(* the scopes' frames as they are, up to the binding a declaration adds.   *)
(* On the tree: of two declarations of one name that are both directly     *)
(* parts of one If, While, Binary or Call, the one resolved second is      *)
(* never entered and is rejected once the walk is over (so is the else     *)
(* branch of `if c x = 1 else x = 2`); an accepted declaration that is     *)
(* directly a part of such a construct is the symbol of a later reference  *)
(* to its name standing next to the construct in the enclosing Block.      *)
(***************************************************************************)
Unscoped(e) == e.kind \in {"If", "While", "Binary", "Call"}

\* kids[i] of p is resolved before kids[j] of p
ResolvedBefore(p, i, j) ==
    IF p.kind = "Call" THEN (i # 1 /\ (j = 1 \/ i < j)) ELSE i < j

C17_SameScopeInside ==
    \A p \in BodyNodes : Unscoped(p) =>
      \A i \in DeclKids(p) : \A j \in DeclKids(p) :
         (ResolvedBefore(p, i, j) /\ p.kids[i].name = p.kids[j].name)
           => /\ ~Resolved(p.kids[j].nid)
              /\ pc \in {"decide", "done"} => Rejected(p.kids[j].nid)

C17_VisibleToSiblings ==
    \A q \in BodyNodes : q.kind = "Block" =>
      \A i \in 1..Len(q.kids) : Unscoped(q.kids[i]) =>
        \A k \in DeclKids(q.kids[i]) :
          LET d == q.kids[i].kids[k] IN
          \A l \in VarKids(q, d.name) :
             (l > i /\ Resolved(q.kids[l].nid) /\ Resolved(d.nid))
               => Table[q.kids[l].nid] = Table[d.nid]

C17_OnlyTheseOpenScopes ==
    /\ [](C17_SameScopeInside /\ C17_VisibleToSiblings)
    /\ [][/\ Len(scopes'.frames) > Len(scopes.frames)
             => \/ pc = "start"
                \/ (pc = "phase2" /\ stack = <<>> /\ idx <= Len(m.body)
                      /\ m.body[idx].kind = "Func")
                \/ AtExpr("Block") \/ AtExpr("Let")
          /\ (Walking /\ Head(stack).op = "expr"
                /\ Head(stack).e.kind \notin {"Block", "Let"})
             => scopes'.frames = scopes.frames
          /\ AtOp("decl")
             => /\ Len(scopes'.frames) = Len(scopes.frames)
                /\ \A i \in 1..(Len(scopes.frames) - 1) :
                      scopes'.frames[i] = scopes.frames[i]]_vars

\* { if <literal> b = .. else b = ..; b } was walked: the else branch is
\* the one error and the reference after the If carries the symbol the
\* first branch declared
C17_Witness ==
    /\ pc = "done"
    /\ result.tag = "Err"
    /\ \E q \in BodyNodes :
          /\ q.kind = "Block" /\ Len(q.kids) = 2
          /\ q.kids[1].kind = "If" /\ q.kids[2].kind = "Var"
          /\ q.kids[1].kids[2].kind = "Decl" /\ q.kids[1].kids[3].kind = "Decl"
          /\ q.kids[1].kids[2].name = q.kids[1].kids[3].name
          /\ q.kids[2].name = q.kids[1].kids[2].name
          /\ q.kids[2].name \notin ItemNames
          /\ ErrNids = <<q.kids[1].kids[3].nid>>
          /\ Table[q.kids[2].nid] = Table[q.kids[1].kids[2].nid]

(***************************************************************************)
(* C18: functions are isolated from each other.  When the walk is about    *)
(* to resolve the body of a function, the scope stack is the root scope,   *)
(* binding exactly the names of the items, and above it one scope binding  *)
(* exactly the names of that function's parameters, each to the symbol of  *)
(* the first parameter of the name.  A reference in one function never     *)
(* carries the symbol of a parameter or local of another function, and a   *)
(* parameter or local that is the only declaration of its name in its own  *)
(* function is never rejected, whatever the other functions declare.       *)
(* Step by step: entering a function finds the root scope alone on the     *)
(* stack and pushes one empty scope, leaving the root scope as it is.      *)
(***************************************************************************)
\* the parameters and the Decls of function f
OwnDecls(f) == Params(f) \cup Decls(f)

\* the first parameter of f named n
FirstParam(f, n) ==
    f.args[CHOOSE i \in 1..Len(f.args) :
              /\ f.args[i].name = n
              /\ \A j \in 1..(i - 1) : f.args[j].name # n]

EnteringFunc ==
    pc = "phase2" /\ stack = <<>> /\ idx <= Len(m.body) /\ m.body[idx].kind = "Func"

C18_BodyStart ==
    \A i \in 1..Len(m.body) :
       (/\ m.body[i].kind = "Func" /\ idx = i /\ AtOp("expr")
        /\ Head(stack).nid = m.body[i].body.nid)
         => /\ Len(scopes.frames) = 2
            /\ DOMAIN scopes.frames[1] = ItemNames
            /\ DOMAIN scopes.frames[2] = {a.name : a \in Params(m.body[i])}
            /\ \A n \in DOMAIN scopes.frames[2] :
                  scopes.frames[2][n] = Table[FirstParam(m.body[i], n).nid]

C18_NoCrossRefs ==
    \A f \in Funcs : \A g \in Funcs : f.nid # g.nid =>
      \A v \in Nodes(g.body) : (v.kind = "Var" /\ Resolved(v.nid)) =>
        \A d \in OwnDecls(f) : Resolved(d.nid) => Table[v.nid] # Table[d.nid]

C18_NoCrossConflicts ==
    \A g \in Funcs : \A d \in OwnDecls(g) :
       (\A e \in OwnDecls(g) : e.name = d.name => e.nid = d.nid)
         => ~Rejected(d.nid)

C18_FunctionsIsolated ==
    /\ [](C18_BodyStart /\ C18_NoCrossRefs /\ C18_NoCrossConflicts)
    /\ [][EnteringFunc =>
            /\ Len(scopes.frames) = 1
            /\ Len(scopes'.frames) = 2
            /\ scopes'.frames[1] = scopes.frames[1]
            /\ scopes'.frames[2] = EmptyMap]_vars

\* two functions, each with a parameter of one name and a local of one
\* other name, were resolved without error
C18_Witness ==
    /\ pc = "done"
    /\ result.tag = "Ok"
    /\ \E f \in Funcs : \E g \in Funcs :
          /\ f.nid # g.nid
          /\ Len(f.args) = 1 /\ Len(g.args) = 1
          /\ f.args[1].name = g.args[1].name
          /\ f.body.kind = "Decl" /\ g.body.kind = "Decl"
          /\ f.body.name = g.body.name
          /\ Cardinality({result.table[f.args[1].nid], result.table[g.args[1].nid],
                          result.table[f.body.nid], result.table[g.body.nid]}) = 4

(***************************************************************************)
(* C19: the parameters of a function live in a scope of their own, below   *)
(* the scope of a body that is a Block.  In such a body, a declaration     *)
(* directly in the Block that is named like a parameter and is the first   *)
(* declaration of that name in the body is never rejected; a reference     *)
(* directly in the Block to that name carries the parameter's symbol when  *)
(* it stands before the declaration and the declaration's symbol, not the  *)
(* parameter's, when it stands after it.  A body that is a bare            *)
(* declaration of a parameter's name is never entered in the table and is  *)
(* rejected once the walk is over.  Step by step: a declaration made with  *)
(* only the root and the parameter scope on the stack and named like a     *)
(* parameter records an error, and entering a Block that is a function     *)
(* body pushes a third scope and leaves the parameter scope as it is.      *)
(***************************************************************************)
ParamNames(f) == {a.name : a \in Params(f)}

C19_BlockShadows ==
    \A f \in Funcs : f.body.kind = "Block" =>
      \A k \in DeclKids(f.body) :
        LET d == f.body.kids[k] IN
        (d.name \in ParamNames(f) /\ FirstOfNameIn(d, f.body)) =>
          /\ ~Rejected(d.nid)
          /\ \A l \in VarKids(f.body, d.name) :
               LET v == f.body.kids[l].nid
                   p == FirstParam(f, d.name).nid
               IN  Resolved(v) =>
                     /\ l < k => Table[v] = Table[p]
                     /\ (l > k /\ Resolved(d.nid))
                          => (Table[v] = Table[d.nid] /\ Table[v] # Table[p])

C19_BareDecl ==
    \A f \in Funcs :
       (f.body.kind = "Decl" /\ f.body.name \in ParamNames(f))
         => /\ ~Resolved(f.body.nid)
            /\ pc \in {"decide", "done"} => Rejected(f.body.nid)

C19_ParamsOwnScope ==
    /\ [](C19_BlockShadows /\ C19_BareDecl)
    /\ [][/\ (AtOp("decl") /\ Len(scopes.frames) = 2
                /\ Head(stack).name \in ParamNames(m.body[idx]))
             => (errs' = Append(errs, Redefinition(Head(stack).nid, Head(stack).name))
                   /\ scopes' = scopes)
          /\ (AtExpr("Block") /\ Head(stack).nid = m.body[idx].body.nid)
             => /\ Len(scopes.frames) = 2
                /\ Len(scopes'.frames) = 3
                /\ scopes'.frames[2] = scopes.frames[2]
                /\ DOMAIN scopes.frames[2] = ParamNames(m.body[idx])]_vars

\* a(p) { p; p = ..; p } was resolved without error: the first reference
\* carries the parameter's symbol, the second the local's
C19_Witness ==
    /\ pc = "done"
    /\ result.tag = "Ok"
    /\ \E f \in Funcs :
          /\ Len(f.args) = 1
          /\ f.body.kind = "Block" /\ Len(f.body.kids) = 3
          /\ f.body.kids[1].kind = "Var" /\ f.body.kids[2].kind = "Decl"
          /\ f.body.kids[3].kind = "Var"
          /\ f.body.kids[1].name = f.args[1].name
          /\ f.body.kids[2].name = f.args[1].name
          /\ f.body.kids[3].name = f.args[1].name
          /\ result.table[f.body.kids[1].nid] = result.table[f.args[1].nid]
          /\ result.table[f.body.kids[3].nid] = result.table[f.body.kids[2].nid]
          /\ result.table[f.body.kids[2].nid] # result.table[f.args[1].nid]

=============================================================================
